---- MODULE Spec2Model ----
(***************************************************************************)
(* The TeaTimer component of src/src/App.js as a state machine.            *)
(*                                                                         *)
(* One action per event handler, timer callback or lifecycle step.  A      *)
(* handler's action is the handler together with the render and commit of  *)
(* the state it sets; the useEffect callbacks whose dependencies changed   *)
(* in that commit are recorded in `pending` and run in FlushEffects, which *)
(* React runs after the commit and always before it handles another event  *)
(* or renders again.  The only thing that can come between a commit and    *)
(* its effects is a callback of an interval that is still registered.      *)
(*                                                                         *)
(* Strings are sequences of characters (one-character TLA+ strings, or     *)
(* longer fragments that hold no character JSON escapes).  A JSON text is  *)
(* a sequence of tokens.                                                   *)
(***************************************************************************)
EXTENDS Naturals, Sequences, FiniteSets, TLC

VARIABLES
    phase,           \* "unmounted" | "mounted" | "crashed" (uncaught error: React removed the tree)
    time,            \* useState(0), line 7
    isRunning,       \* useState(false), line 8
    showSaveDialog,  \* useState(false), line 9
    notes,           \* useState(''), line 10
    intervalRef,     \* useRef(null), line 11; 0 stands for null
    sessions,        \* useState([]), line 14
    activeView,      \* useState('timer'), line 15
    intervals,       \* interval ids registered with the browser and not yet cleared
    pending,         \* effects scheduled by the last commit and not yet run
    storage,         \* localStorage item 'teaSessions'
    now,             \* the wall clock read by Date.now() and new Date()
    last             \* the event processed by the last step

vars == <<phase, time, isRunning, showSaveDialog, notes, intervalRef, sessions,
          activeView, intervals, pending, storage, now, last>>

timerVars == <<time, isRunning, showSaveDialog, notes>>

----------------------------------------------------------------------------
(* Bounds of the model *)

MaxTicks == 1          \* ticks counted before the stopwatch is capped
MaxLog == 2            \* sessions in the log before Save is capped
MaxNow == 1            \* wall-clock milliseconds before the clock is capped
MaxIntervalIds == 2    \* interval ids the browser hands out

(* Program constants *)

TickMs == 10           \* the increment and the period of the interval
MsPerMinute == 60000

MaxTime == MaxTicks * TickMs

----------------------------------------------------------------------------
(* Numbers and their decimal numerals *)

DigitChars == <<"0", "1", "2", "3", "4", "5", "6", "7", "8", "9">>

IsDigit(c) == \E d \in 1..10 : DigitChars[d] = c

DigitValue(c) == (CHOOSE d \in 1..10 : DigitChars[d] = c) - 1

RECURSIVE NumberToString(_)
NumberToString(n) ==
    IF n < 10 THEN <<DigitChars[n + 1]>>
    ELSE NumberToString(n \div 10) \o <<DigitChars[(n % 10) + 1]>>

RECURSIVE StringToNumber(_)
StringToNumber(ds) ==
    IF Len(ds) = 0 THEN 0
    ELSE 10 * StringToNumber(SubSeq(ds, 1, Len(ds) - 1)) + DigitValue(ds[Len(ds)])

RECURSIVE Gcd(_, _)
Gcd(a, b) == IF b = 0 THEN a ELSE Gcd(b, a % b)

(* JavaScript numbers held in session records.  A number is named by the   *)
(* fraction in lowest terms that it is nearest to (den = 1 for a whole     *)
(* number): distinct fractions of the sizes used here are distinct doubles.*)
Number(n) == [num |-> n, den |-> 1]

(* a / b for whole a and b > 0                                             *)
Divide(a, b) == [num |-> a \div Gcd(a, b), den |-> b \div Gcd(a, b)]

----------------------------------------------------------------------------
(* Strings *)

Quote == "\""
Backslash == "\\"

(* What the user types into the notes field                                *)
NoteValues == {<<>>, <<"t", Quote, Backslash>>}

(* Date.prototype.toISOString for the instants of the model's clock        *)
PadStart3(ds) == IF Len(ds) >= 3 THEN ds
                 ELSE IF Len(ds) = 2 THEN <<"0">> \o ds
                 ELSE <<"0", "0">> \o ds

ToISOString(ms) ==
    <<"1970-01-01T00:00:0", NumberToString(ms \div 1000)[1], ".">>
        \o PadStart3(NumberToString(ms % 1000)) \o <<"Z">>

----------------------------------------------------------------------------
(* JSON texts: sequences of tokens *)

Punct(s) == [k |-> "punct", v |-> <<s>>]
Literal(s) == [k |-> "lit", v |-> <<s>>]
NumTok(ds) == [k |-> "num", v |-> ds]
StrTok(cs) == [k |-> "str", v |-> cs]

(* A serializer that escapes nothing                                      *)
EscapeCharsNone(cs) == cs

(* QuoteJSONString: the characters between the quotes of a JSON string     *)
RECURSIVE EscapeChars(_)
EscapeChars(cs) ==
    IF Len(cs) = 0 THEN <<>>
    ELSE (IF Head(cs) \in {Quote, Backslash} THEN <<Backslash, Head(cs)>>
          ELSE <<Head(cs)>>) \o EscapeChars(Tail(cs))

(* The reverse; ok is FALSE for a bare quote or a dangling backslash       *)
RECURSIVE UnescapeChars(_)
UnescapeChars(cs) ==
    IF Len(cs) = 0 THEN [ok |-> TRUE, val |-> <<>>]
    ELSE IF Head(cs) = Quote THEN [ok |-> FALSE, val |-> <<>>]
    ELSE IF Head(cs) = Backslash
         THEN IF Len(cs) < 2 \/ cs[2] \notin {Quote, Backslash}
              THEN [ok |-> FALSE, val |-> <<>>]
              ELSE LET r == UnescapeChars(SubSeq(cs, 3, Len(cs)))
                   IN [ok |-> r.ok, val |-> <<cs[2]>> \o r.val]
    ELSE LET r == UnescapeChars(Tail(cs))
         IN [ok |-> r.ok, val |-> <<Head(cs)>> \o r.val]

(* Number::toString for the numbers of the model                           *)
NumberNumeral(x) ==
    IF x.den = 1 THEN NumberToString(x.num)
    ELSE NumberToString(x.num) \o <<"/">> \o NumberToString(x.den)

SlashAt(ds) == {i \in 1..Len(ds) : ds[i] = "/"}

IsNumeral(ds) ==
    /\ Len(ds) > 0
    /\ \A i \in 1..Len(ds) : IsDigit(ds[i]) \/ ds[i] = "/"
    /\ Cardinality(SlashAt(ds)) <= 1
    /\ \A i \in SlashAt(ds) : 1 < i /\ i < Len(ds)

NumeralValue(ds) ==
    IF SlashAt(ds) = {} THEN Number(StringToNumber(ds))
    ELSE LET i == CHOOSE j \in SlashAt(ds) : TRUE
         IN Divide(StringToNumber(SubSeq(ds, 1, i - 1)),
                   StringToNumber(SubSeq(ds, i + 1, Len(ds))))

SessionKeys == <<"id", "time", "timeMinutes", "date", "notes">>

(* SerializeJSONObject for a session record, keys in creation order        *)
RECURSIVE SerializeMembers(_, _)
SerializeMembers(s, i) ==
    IF i > Len(SessionKeys) THEN <<>>
    ELSE LET key == SessionKeys[i]
             value == IF key \in {"date", "notes"}
                      THEN StrTok(EscapeChars(s[key]))
                      ELSE NumTok(NumberNumeral(s[key]))
         IN (IF i > 1 THEN <<Punct(",")>> ELSE <<>>)
            \o <<StrTok(<<key>>), Punct(":"), value>>
            \o SerializeMembers(s, i + 1)

SerializeObject(s) == <<Punct("{")>> \o SerializeMembers(s, 1) \o <<Punct("}")>>

RECURSIVE SerializeElements(_, _)
SerializeElements(log, i) ==
    IF i > Len(log) THEN <<>>
    ELSE (IF i > 1 THEN <<Punct(",")>> ELSE <<>>)
         \o SerializeObject(log[i]) \o SerializeElements(log, i + 1)

(* JSON.stringify(sessions), line 28                                        *)
JSONstringify(log) == <<Punct("[")>> \o SerializeElements(log, 1) \o <<Punct("]")>>

(* JSON.parse: a recursive-descent parser over the tokens.  A result is    *)
(* [ok, kind, val, rest]; kind names the type of the value parsed.         *)
ParseFail == [ok |-> FALSE, kind |-> "none", val |-> <<>>, rest |-> <<>>]

IsPunct(t, s) == Len(t) > 0 /\ Head(t).k = "punct" /\ Head(t).v = <<s>>

(* An object: the last member of a name wins.  Member names of the model   *)
(* are single fragments.                                                   *)
MakeObject(pairs) ==
    [key \in {pairs[i][1] : i \in 1..Len(pairs)} |->
        LET i == CHOOSE j \in 1..Len(pairs) :
                    /\ pairs[j][1] = key
                    /\ \A m \in (j + 1)..Len(pairs) : pairs[m][1] # key
        IN pairs[i][2]]

RECURSIVE ParseValue(_), ParseElements(_, _), ParseMembers(_, _)
ParseValue(t) ==
    IF Len(t) = 0 THEN ParseFail
    ELSE LET h == Head(t) IN
         CASE h.k = "num" ->
                IF IsNumeral(h.v)
                THEN [ok |-> TRUE, kind |-> "number", val |-> NumeralValue(h.v),
                      rest |-> Tail(t)]
                ELSE ParseFail
           [] h.k = "str" ->
                LET u == UnescapeChars(h.v)
                IN IF u.ok
                   THEN [ok |-> TRUE, kind |-> "string", val |-> u.val, rest |-> Tail(t)]
                   ELSE ParseFail
           [] h.k = "lit" ->
                IF h.v = <<"null">>
                THEN [ok |-> TRUE, kind |-> "null", val |-> <<>>, rest |-> Tail(t)]
                ELSE ParseFail
           [] h.k = "punct" /\ h.v = <<"[">> ->
                IF IsPunct(Tail(t), "]")
                THEN [ok |-> TRUE, kind |-> "array", val |-> <<>>, rest |-> Tail(Tail(t))]
                ELSE ParseElements(Tail(t), <<>>)
           [] h.k = "punct" /\ h.v = <<"{">> ->
                IF IsPunct(Tail(t), "}")
                THEN [ok |-> TRUE, kind |-> "object", val |-> <<>>, rest |-> Tail(Tail(t))]
                ELSE ParseMembers(Tail(t), <<>>)
           [] OTHER -> ParseFail

ParseElements(t, acc) ==
    LET e == ParseValue(t) IN
    IF ~e.ok THEN ParseFail
    ELSE IF IsPunct(e.rest, ",") THEN ParseElements(Tail(e.rest), Append(acc, e.val))
    ELSE IF IsPunct(e.rest, "]")
         THEN [ok |-> TRUE, kind |-> "array", val |-> Append(acc, e.val),
               rest |-> Tail(e.rest)]
    ELSE ParseFail

ParseMembers(t, acc) ==
    IF Len(t) < 2 \/ Head(t).k # "str" \/ ~IsPunct(Tail(t), ":") THEN ParseFail
    ELSE LET name == UnescapeChars(Head(t).v)
             e == ParseValue(Tail(Tail(t)))
         IN IF ~name.ok \/ Len(name.val) # 1 \/ ~e.ok THEN ParseFail
            ELSE LET more == Append(acc, <<name.val[1], e.val>>) IN
                 IF IsPunct(e.rest, ",") THEN ParseMembers(Tail(e.rest), more)
                 ELSE IF IsPunct(e.rest, "}")
                      THEN [ok |-> TRUE, kind |-> "object", val |-> MakeObject(more),
                            rest |-> Tail(e.rest)]
                 ELSE ParseFail

(* JSON.parse(savedSessions), line 21: throws (ok FALSE) unless the whole   *)
(* text is one value                                                       *)
JSONparse(text) ==
    LET r == ParseValue(text)
    IN IF r.ok /\ Len(r.rest) = 0 THEN r ELSE ParseFail

----------------------------------------------------------------------------
(* localStorage item 'teaSessions': getItem gives null when absent         *)

NoItem == [present |-> FALSE, text |-> <<>>]
Item(text) == [present |-> TRUE, text |-> text]

(* if (savedSessions), line 20: null and the empty string are falsy        *)
Truthy(item) == item.present /\ Len(item.text) > 0

(* A session saved by an earlier run of the application                    *)
EarlierSession ==
    [id |-> Number(0), time |-> Number(TickMs), timeMinutes |-> Divide(TickMs, MsPerMinute),
     date |-> ToISOString(0), notes |-> <<>>]

(* What the item can hold when the application starts: nothing, the empty  *)
(* string, a truncated text, JSON that is no array, and logs written by    *)
(* an earlier run.                                                         *)
InitialStorage ==
    { NoItem,
      Item(<<>>),
      Item(<<Punct("["), Punct("{")>>),
      Item(<<Literal("null")>>),
      Item(<<Punct("{"), Punct("}")>>),
      Item(JSONstringify(<<>>)),
      Item(JSONstringify(<<EarlierSession>>)) }

----------------------------------------------------------------------------
(* The effects *)

(* A load effect that reads the item and applies nothing                  *)
LoadEffectSkipped(item) == [thrown |-> FALSE, set |-> FALSE, kind |-> "none", val |-> <<>>]

(* Load effect, lines 18-23: what the effect does with the item.           *)
(* thrown: JSON.parse threw; set: setSessions(value) was called.           *)
LoadEffect(item) ==
    IF ~Truthy(item)
    THEN [thrown |-> FALSE, set |-> FALSE, kind |-> "none", val |-> <<>>]
    ELSE LET r == JSONparse(item.text)
         IN IF r.ok
            THEN [thrown |-> FALSE, set |-> TRUE, kind |-> r.kind, val |-> r.val]
            ELSE [thrown |-> TRUE, set |-> FALSE, kind |-> "none", val |-> <<>>]

(* Variants of the persist effect: one that writes an empty log too, one  *)
(* that never writes                                                       *)
PersistEffectUnguarded(log, item) == Item(JSONstringify(log))

PersistEffectNever(log, item) == item

(* Persist effect, lines 26-30: the item after the effect ran with `log`   *)
PersistEffect(log, item) ==
    IF Len(log) > 0 THEN Item(JSONstringify(log)) ELSE item

(* A cleanup that clears nothing                                           *)
TimerCleanupNone(ref, ivs) == ivs

(* Cleanup of the timer effect, lines 44-48                                *)
TimerCleanup(ref, ivs) == IF ref # 0 THEN ivs \ {ref} ELSE ivs

(* A timer effect that starts an interval without clearing the one before *)
TimerEffectNoClear(running, ref, ivs, id) ==
    IF running THEN [ref |-> id, ivs |-> ivs \cup {id}] ELSE [ref |-> ref, ivs |-> ivs]

(* Timer effect, lines 33-49, run for a change of isRunning: the cleanup   *)
(* of the previous run, then the body.  id is what setInterval returns.    *)
TimerEffect(running, ref, ivs, id) ==
    LET cleaned == TimerCleanup(ref, ivs) IN
    IF running
    THEN [ref |-> id, ivs |-> cleaned \cup {id}]
    ELSE [ref |-> ref, ivs |-> IF ref # 0 THEN cleaned \ {ref} ELSE cleaned]

(* setInterval returns an id that no registered interval has               *)
FreshIds(ref, ivs) ==
    LET free == (1..MaxIntervalIds) \ (ivs \cup {ref})
    IN {i \in free : \A j \in free : i <= j}

(* The effects of an update (not the mount), run in the order they are     *)
(* declared: persist if sessions changed, timer if isRunning changed.      *)
EffectsRun(id) ==
    LET t == IF "timer" \in pending
             THEN TimerEffect(isRunning, intervalRef, intervals, id)
             ELSE [ref |-> intervalRef, ivs |-> intervals]
    IN [storage |-> IF "persist" \in pending
                    THEN PersistEffect(sessions, storage) ELSE storage,
        ref |-> t.ref, ivs |-> t.ivs]

----------------------------------------------------------------------------
(* The handlers *)

(* A reset that keeps the draft notes                                      *)
handleResetKeepsNotes == [time |-> 0, isRunning |-> FALSE, notes |-> notes]

(* handleReset, lines 68-72: the timer state it sets                       *)
handleReset == [time |-> 0, isRunning |-> FALSE, notes |-> <<>>]

(* A save with no guard                                                    *)
SaveGuardNone(t, running) == TRUE

(* if (time > 0), line 75                                                  *)
SaveGuard(t, running) == t > 0

(* A session that records the time in seconds' worth of minutes and drops *)
(* the notes                                                               *)
NewSessionWrong(t, n, clock) ==
    [id |-> Number(clock), time |-> Number(t), timeMinutes |-> Divide(t, 1000),
     date |-> ToISOString(clock), notes |-> <<>>]

(* newSession, lines 76-82                                                 *)
NewSession(t, n, clock) ==
    [id |-> Number(clock), time |-> Number(t), timeMinutes |-> Divide(t, MsPerMinute),
     date |-> ToISOString(clock), notes |-> n]

(* A save that puts the new session first                                  *)
AppendSessionFirst(log, s) == <<s>> \o log

(* [...sessions, newSession], line 83                                      *)
AppendSession(log, s) == Append(log, s)

(* Array.prototype.slice(-n): a new array of the last n elements           *)
(* (slice(-0) is slice(0): the whole array)                                *)
SliceLast(arr, n) ==
    IF n = 0 \/ n >= Len(arr) THEN arr
    ELSE SubSeq(arr, Len(arr) - n + 1, Len(arr))

(* Array.prototype.reverse: the receiver, reversed in place                *)
Reverse(arr) == [i \in 1..Len(arr) |-> arr[Len(arr) - i + 1]]

(* The sessions listed under Recent Sessions, line 300                     *)
RecentCount == 3

(* A list that reverses the log itself and then takes the first n          *)
RecentSessionsInPlace(log, n) ==
    [shown |-> SubSeq(Reverse(log), 1, IF n < Len(log) THEN n ELSE Len(log)),
     log |-> Reverse(log)]

(* sessions.slice(-n).reverse(), line 300: what is listed, and the log     *)
(* array after the expression ran (reverse works on the copy slice made)   *)
RecentSessions(log, n) ==
    LET copy == SliceLast(log, n)
    IN [shown |-> Reverse(copy), log |-> log]

(* The log array after the render of a commit: the list is rendered in     *)
(* the timer view when the log is not empty, lines 249 and 296             *)
AfterRender(view, log) ==
    IF view = "timer" /\ Len(log) > 0 THEN RecentSessions(log, RecentCount).log ELSE log

(* The Save Session button is rendered, line 284                           *)
SaveButtonShown == activeView = "timer" /\ time > 0 /\ ~isRunning

----------------------------------------------------------------------------
(* What the views show *)

(* String.prototype.padStart(2, '0')                                       *)
PadStart2(ds) == IF Len(ds) >= 2 THEN ds ELSE <<"0">> \o ds

(* A display whose seconds are not taken modulo 60                         *)
formatTimeTotalSeconds(milliseconds) ==
    LET totalSeconds == milliseconds \div 1000
        minutes == totalSeconds \div 60
        ms == (milliseconds % 1000) \div 10
    IN PadStart2(NumberToString(minutes)) \o <<":">>
           \o PadStart2(NumberToString(totalSeconds)) \o <<".">>
           \o PadStart2(NumberToString(ms))

(* formatTime, lines 51-61                                                 *)
formatTime(milliseconds) ==
    LET totalSeconds == milliseconds \div 1000
        minutes == totalSeconds \div 60
        seconds == totalSeconds % 60
        ms == (milliseconds % 1000) \div 10
    IN PadStart2(NumberToString(minutes)) \o <<":">>
           \o PadStart2(NumberToString(seconds)) \o <<".">>
           \o PadStart2(NumberToString(ms))

(* a + b, a / n and a < b on the numbers of session records (n whole, > 0) *)
Plus(a, b) == Divide(a.num * b.den + b.num * a.den, a.den * b.den)

Over(a, n) == Divide(a.num, a.den * n)

LessThan(a, b) == a.num * b.den < b.num * a.den

(* Number.prototype.toFixed(2) of x >= 0: the count n of hundredths        *)
(* nearest to x, the larger one when two are equally near, written with    *)
(* two decimals.  Where x is exactly halfway the double that stands for x  *)
(* decides in the program; the times of the model are never halfway.       *)
Hundredths(x) == (200 * x.num + x.den) \div (2 * x.den)

ToFixed2(x) ==
    LET n == Hundredths(x)
    IN NumberToString(n \div 100) \o <<".">> \o PadStart2(NumberToString(n % 100))

(* times.reduce((a, b) => a + b, 0) over the first k elements, line 103    *)
RECURSIVE Reduce(_, _)
Reduce(times, k) ==
    IF k = 0 THEN Number(0) ELSE Plus(Reduce(times, k - 1), times[k])

(* Math.min(...times) and Math.max(...times), lines 104-105                *)
MathMin(times) ==
    times[CHOOSE i \in 1..Len(times) : \A j \in 1..Len(times) : ~LessThan(times[j], times[i])]

MathMax(times) ==
    times[CHOOSE i \in 1..Len(times) : \A j \in 1..Len(times) : ~LessThan(times[i], times[j])]

(* Statistics whose minimum starts from zero                               *)
getStatsMinFromZero(log) ==
    IF Len(log) = 0
    THEN [average |-> Number(0), shortest |-> Number(0), longest |-> Number(0)]
    ELSE LET times == [i \in 1..Len(log) |-> log[i].timeMinutes]
             average == Over(Reduce(times, Len(times)), Len(times))
         IN [average |-> ToFixed2(average),
             shortest |-> ToFixed2(MathMin(<<Number(0)>> \o times)),
             longest |-> ToFixed2(MathMax(times))]

(* getStats, lines 99-112: three numbers 0 for the empty log, three        *)
(* strings otherwise                                                       *)
getStats(log) ==
    IF Len(log) = 0
    THEN [average |-> Number(0), shortest |-> Number(0), longest |-> Number(0)]
    ELSE LET times == [i \in 1..Len(log) |-> log[i].timeMinutes]
             average == Over(Reduce(times, Len(times)), Len(times))
             shortest == MathMin(times)
             longest == MathMax(times)
         IN [average |-> ToFixed2(average),
             shortest |-> ToFixed2(shortest),
             longest |-> ToFixed2(longest)]

(* new Date(s.date): the instant, in ms, of a date written by toISOString  *)
DateParse(iso) == 1000 * DigitValue(iso[2]) + StringToNumber(SubSeq(iso, 4, 6))

(* Date.prototype.toLocaleString, as the en-US locale in UTC writes the    *)
(* instants of the model's clock (other locales order the parts otherwise) *)
ToLocaleString(ms) ==
    <<"1/1/1970", ",", " ", "12:00:0", NumberToString(ms \div 1000)[1], " AM">>

(* Array.prototype.join                                                    *)
RECURSIVE Join(_, _)
Join(parts, sep) ==
    IF Len(parts) = 0 THEN <<>>
    ELSE IF Len(parts) = 1 THEN parts[1]
    ELSE Join(SubSeq(parts, 1, Len(parts) - 1), sep) \o <<sep>> \o parts[Len(parts)]

Comma == ","
NewLine == "\n"

(* exportToCSV, lines 117-127: the header, the cells of a session and the  *)
(* text handed to the Blob                                                 *)
headers == << <<"Date">>, <<"Time (minutes)">>, <<"Notes">> >>

CellsOf(s) == <<ToLocaleString(DateParse(s.date)), ToFixed2(s.timeMinutes), s.notes>>

(* `"${cell}"`, line 126                                                   *)
QuoteCell(cell) == <<Quote>> \o cell \o <<Quote>>

csvContent(log) ==
    LET rows == [i \in 1..Len(log) |-> CellsOf(log[i])]
    IN Join(<<Join(headers, Comma)>>
              \o [i \in 1..Len(rows) |->
                     Join([j \in 1..3 |-> QuoteCell(rows[i][j])], Comma)],
            NewLine)

Views == {"timer", "trends", "settings"}

(* The state of a fresh component instance, lines 7-15                     *)
InitialState ==
    [time |-> 0, isRunning |-> FALSE, showSaveDialog |-> FALSE, notes |-> <<>>,
     intervalRef |-> 0, sessions |-> <<>>, activeView |-> "timer"]

Init ==
    /\ phase = "unmounted"
    /\ time = InitialState.time
    /\ isRunning = InitialState.isRunning
    /\ showSaveDialog = InitialState.showSaveDialog
    /\ notes = InitialState.notes
    /\ intervalRef = InitialState.intervalRef
    /\ sessions = InitialState.sessions
    /\ activeView = InitialState.activeView
    /\ intervals = {}
    /\ pending = {}
    /\ storage \in InitialStorage
    /\ now = 0
    /\ last = "init"

(* The component is mounted and React has run the effects of the last      *)
(* commit: the state in which it dispatches an event to a handler.         *)
Ready == phase = "mounted" /\ pending = {}

(* The page is opened (or opened again): first render, lines 7-15          *)
Mount ==
    /\ phase # "mounted"
    /\ phase' = "mounted"
    /\ time' = InitialState.time
    /\ isRunning' = InitialState.isRunning
    /\ showSaveDialog' = InitialState.showSaveDialog
    /\ notes' = InitialState.notes
    /\ intervalRef' = InitialState.intervalRef
    /\ sessions' = InitialState.sessions
    /\ activeView' = InitialState.activeView
    /\ pending' = {"load", "persist", "timer"}
    /\ last' = "mount"
    /\ UNCHANGED <<intervals, storage, now>>

(* The three effects after the first render.  The load effect reads the    *)
(* item; the persist effect sees the initial empty log; the timer effect   *)
(* sees isRunning false.  Then the value given to setSessions is rendered: *)
(* an uncaught throw of JSON.parse, or rendering a value that is no array  *)
(* (sessions.map, line 102), makes React remove the tree.                  *)
MountEffects ==
    /\ phase = "mounted"
    /\ "load" \in pending
    /\ LET r == LoadEffect(storage) IN
       /\ storage' = PersistEffect(sessions, storage)
       /\ \E id \in FreshIds(intervalRef, intervals) :
            LET t == TimerEffect(isRunning, intervalRef, intervals, id)
            IN intervalRef' = t.ref /\ intervals' = t.ivs
       /\ IF r.thrown \/ (r.set /\ r.kind # "array")
          THEN /\ phase' = "crashed"
               /\ sessions' = <<>>
               /\ pending' = {}
               /\ last' = "crash"
          ELSE /\ phase' = phase
               /\ sessions' = IF r.set THEN AfterRender(activeView, r.val) ELSE sessions
               /\ pending' = IF r.set THEN {"persist"} ELSE {}
               /\ last' = "load"
    /\ UNCHANGED <<timerVars, activeView, now>>

(* The effects scheduled by the commit of an update                        *)
FlushEffects ==
    /\ phase = "mounted"
    /\ pending # {}
    /\ "load" \notin pending
    /\ \E id \in FreshIds(intervalRef, intervals) :
         LET e == EffectsRun(id)
         IN storage' = e.storage /\ intervalRef' = e.ref /\ intervals' = e.ivs
    /\ pending' = {}
    /\ last' = "effects"
    /\ UNCHANGED <<phase, timerVars, sessions, activeView, now>>

(* The interval's callback, lines 35-37.  A callback that arrives between  *)
(* a commit and its effects is run by the browser all the same; React runs *)
(* the scheduled effects before it renders the callback's update.          *)
Tick ==
    /\ phase = "mounted"
    /\ "load" \notin pending
    /\ time < MaxTime
    /\ \E i \in intervals :
         \E id \in FreshIds(intervalRef, intervals) :
            LET e == EffectsRun(id)
            IN storage' = e.storage /\ intervalRef' = e.ref /\ intervals' = e.ivs
    /\ time' = time + TickMs
    /\ pending' = {}
    /\ last' = "tick"
    /\ UNCHANGED <<phase, isRunning, showSaveDialog, notes, sessions, activeView, now>>

(* handleStartStop, lines 64-66 (button rendered in the timer view)        *)
handleStartStop ==
    /\ Ready
    /\ activeView = "timer"
    /\ isRunning' = ~isRunning
    /\ pending' = {"timer"}
    /\ last' = "toggle"
    /\ UNCHANGED <<phase, time, showSaveDialog, notes, intervalRef, sessions,
                   activeView, intervals, storage, now>>

(* The reset button, line 276                                              *)
Reset ==
    /\ Ready
    /\ activeView = "timer"
    /\ time' = handleReset.time
    /\ isRunning' = handleReset.isRunning
    /\ notes' = handleReset.notes
    /\ pending' = IF isRunning' # isRunning THEN {"timer"} ELSE {}
    /\ last' = "reset"
    /\ UNCHANGED <<phase, showSaveDialog, intervalRef, sessions, activeView,
                   intervals, storage, now>>

(* The Save Session button, lines 284-292                                  *)
OpenSaveDialog ==
    /\ Ready
    /\ SaveButtonShown
    /\ showSaveDialog' = TRUE
    /\ pending' = {}
    /\ last' = "open"
    /\ UNCHANGED <<phase, time, isRunning, notes, intervalRef, sessions, activeView,
                   intervals, storage, now>>

(* Cancel in the dialog, line 434                                          *)
CancelDialog ==
    /\ Ready
    /\ showSaveDialog
    /\ showSaveDialog' = FALSE
    /\ pending' = {}
    /\ last' = "cancel"
    /\ UNCHANGED <<phase, time, isRunning, notes, intervalRef, sessions, activeView,
                   intervals, storage, now>>

(* The notes field of the dialog, line 427                                 *)
ChangeNotes ==
    /\ Ready
    /\ showSaveDialog
    /\ \E v \in NoteValues : notes' = v
    /\ pending' = {}
    /\ last' = "notes"
    /\ UNCHANGED <<phase, time, isRunning, showSaveDialog, intervalRef, sessions,
                   activeView, intervals, storage, now>>

(* handleSave, lines 74-87 (Save in the dialog, line 440)                  *)
handleSave ==
    /\ Ready
    /\ showSaveDialog
    /\ Len(sessions) < MaxLog
    /\ IF SaveGuard(time, isRunning)
       THEN /\ sessions' = AfterRender(activeView,
                                    AppendSession(sessions, NewSession(time, notes, now)))
            /\ showSaveDialog' = FALSE
            /\ time' = handleReset.time
            /\ isRunning' = handleReset.isRunning
            /\ notes' = handleReset.notes
            /\ pending' = {"persist"} \cup (IF isRunning' # isRunning THEN {"timer"} ELSE {})
       ELSE /\ UNCHANGED <<sessions, showSaveDialog, time, isRunning, notes>>
            /\ pending' = {}
    /\ last' = "save"
    /\ UNCHANGED <<phase, intervalRef, activeView, intervals, storage, now>>

(* The navigation buttons, lines 214-236                                   *)
SetActiveView ==
    /\ Ready
    /\ \E v \in Views : activeView' = v /\ sessions' = AfterRender(v, sessions)
    /\ pending' = {}
    /\ last' = "view"
    /\ UNCHANGED <<phase, timerVars, intervalRef, intervals, storage, now>>

(* The component is removed: the cleanup of the timer effect runs          *)
Unmount ==
    /\ Ready
    /\ phase' = "unmounted"
    /\ intervals' = TimerCleanup(intervalRef, intervals)
    /\ time' = InitialState.time
    /\ isRunning' = InitialState.isRunning
    /\ showSaveDialog' = InitialState.showSaveDialog
    /\ notes' = InitialState.notes
    /\ intervalRef' = InitialState.intervalRef
    /\ sessions' = InitialState.sessions
    /\ activeView' = InitialState.activeView
    /\ pending' = {}
    /\ last' = "unmount"
    /\ UNCHANGED <<storage, now>>

(* Export Data to CSV, lines 391-393 and 117-139: the button is disabled   *)
(* on an empty log; the handler builds csvContent(sessions), hands it to   *)
(* the browser as a download and sets no state                             *)
exportToCSV ==
    /\ Ready
    /\ activeView = "settings"
    /\ Len(sessions) # 0
    /\ last' = "export"
    /\ UNCHANGED <<phase, timerVars, intervalRef, sessions, activeView, intervals,
                   pending, storage, now>>

(* Wall-clock time passes.  Date.now() reads the wall clock, which the     *)
(* interval does not drive and which can be corrected backwards between    *)
(* two reads: the model lets any number of events happen at one reading.   *)
ClockAdvance ==
    /\ now < MaxNow
    /\ now' = now + 1
    /\ last' = "clock"
    /\ UNCHANGED <<phase, timerVars, intervalRef, sessions, activeView, intervals,
                   pending, storage>>

Next ==
    \/ Mount
    \/ MountEffects
    \/ FlushEffects
    \/ Tick
    \/ handleStartStop
    \/ Reset
    \/ OpenSaveDialog
    \/ CancelDialog
    \/ ChangeNotes
    \/ handleSave
    \/ SetActiveView
    \/ exportToCSV
    \/ Unmount
    \/ ClockAdvance

Spec == Init /\ [][Next]_vars

(* The stopwatch alone: start/stop and the interval's callbacks            *)
NextTimer ==
    \/ Mount
    \/ MountEffects
    \/ FlushEffects
    \/ Tick
    \/ handleStartStop
    \/ ClockAdvance

SpecTimer == Init /\ [][NextTimer]_vars

(* The callback arriving only once the effects of the last commit ran     *)
TickWhenReady == Ready /\ Tick

(* The program with no callback between a commit and its effects           *)
NextSync ==
    \/ Mount
    \/ MountEffects
    \/ FlushEffects
    \/ TickWhenReady
    \/ handleStartStop
    \/ Reset
    \/ OpenSaveDialog
    \/ CancelDialog
    \/ ChangeNotes
    \/ handleSave
    \/ SetActiveView
    \/ exportToCSV
    \/ Unmount
    \/ ClockAdvance

SpecSync == Init /\ [][NextSync]_vars

(* The views over logs and stopwatch readings the bounds of Spec do not    *)
(* reach.  A sample log is what MaxShownLog or fewer saves leave behind,   *)
(* one per clock reading; a sample reading is a stopped stopwatch.         *)
MaxShownLog == 4

SampleSaves ==
    {[time |-> 10, notes |-> <<>>],
     [time |-> 65430, notes |-> <<"G", "r", "e", "e", "n", " ", "t", "e", "a">>],
     [time |-> 59990, notes |-> <<"t", Quote, Backslash>>]}

SampleLogs ==
    UNION {{[i \in 1..k |-> NewSession(f[i].time, f[i].notes, i - 1)] :
               f \in [1..k -> SampleSaves]} : k \in 0..MaxShownLog}

DisplayTimes ==
    {10, 990, 1000, 59990, 60000, 65430, 599990, 600000, 3599990, 5999990}

InitView ==
    /\ phase = "mounted"
    /\ \/ time \in DisplayTimes /\ sessions = <<>> /\ intervalRef = 1
          /\ storage = NoItem
       \/ time = 0 /\ sessions \in SampleLogs \ {<<>>} /\ intervalRef = 0
          /\ storage = Item(JSONstringify(sessions))
    /\ isRunning = FALSE
    /\ showSaveDialog = FALSE
    /\ notes = <<>>
    /\ activeView = "timer"
    /\ intervals = {}
    /\ pending = {}
    /\ now = 0
    /\ last = "effects"

NextView ==
    \/ SetActiveView
    \/ exportToCSV
    \/ OpenSaveDialog
    \/ CancelDialog
    \/ Reset

SpecView == InitView /\ [][NextView]_vars

----------------------------------------------------------------------------
(* Properties *)

SpecialNotes == <<"t", Quote, Backslash>>

(* C1: a session is added to the log only by a save step, and only by one  *)
(* taken with time > 0 and isRunning false.                                *)
C1_SessionOnlyFromStoppedTimer ==
    [][(sessions' # sessions /\ last' \notin {"load", "crash", "mount", "unmount"})
          => (last' = "save" /\ time > 0 /\ ~isRunning)]_vars

(* C2: with only start/stop and ticks, time never decreases, and no step   *)
(* taken with isRunning false changes time.                                *)
C2_FrozenWhileNotRunning ==
    [][time' >= time /\ (~isRunning => time' = time)]_vars

(* C3: at most one interval is registered in every reachable state, and a  *)
(* tick advances time by exactly one quantum.                              *)
C3_OneTickSource ==
    /\ [](Cardinality(intervals) <= 1)
    /\ [][last' = "tick" => time' = time + TickMs]_vars

C3_Witness ==
    /\ last = "effects"
    /\ isRunning
    /\ time > 0
    /\ Cardinality(intervals) = 1

(* C4: once the timer effect has run for a stop, a reset or a save, and    *)
(* after the component is removed, no interval is registered, and from     *)
(* such a state with isRunning false no step increases time.               *)
C4_TickSourceCancelled ==
    /\ [](phase # "mounted" => intervals = {})
    /\ []((phase = "mounted" /\ "timer" \notin pending /\ ~isRunning) => intervals = {})
    /\ [][("timer" \notin pending /\ ~isRunning) => time' <= time]_vars

C4_Witness ==
    /\ last = "effects"
    /\ phase = "mounted"
    /\ ~isRunning
    /\ time = 0
    /\ Len(sessions) > 0
    /\ intervalRef # 0
    /\ intervals = {}

(* C5: a reset step leaves time = 0, isRunning false and empty notes, does *)
(* not change the log or the stored item, and schedules no write.          *)
C5_ResetYieldsIdle ==
    [][last' = "reset" =>
          /\ time' = 0 /\ ~isRunning' /\ notes' = <<>>
          /\ sessions' = sessions /\ storage' = storage
          /\ "persist" \notin pending']_vars

C5_Witness ==
    /\ last = "reset"
    /\ showSaveDialog
    /\ pending = {"timer"}
    /\ Len(sessions) > 0
    /\ time = 0 /\ ~isRunning /\ notes = <<>>

(* C6: a save step taken with time = 0 changes neither the log, the stored *)
(* item nor the timer state, and schedules no write.                       *)
C6_SaveAtZeroIsNoOp ==
    [][(last' = "save" /\ time = 0) =>
          /\ sessions' = sessions /\ storage' = storage
          /\ "persist" \notin pending'
          /\ time' = time /\ isRunning' = isRunning /\ notes' = notes]_vars

C6_Witness ==
    /\ last = "save"
    /\ time = 0
    /\ showSaveDialog
    /\ notes = SpecialNotes
    /\ pending = {}

(* C7: after the load at startup with an item that does not parse, the     *)
(* component is mounted with an empty log.                                 *)
C7_MalformedLoadsEmpty ==
    (last \in {"load", "crash"} /\ Truthy(storage) /\ ~JSONparse(storage.text).ok)
        => (phase = "mounted" /\ sessions = <<>>)

C9_EmptyLogNeverWritten ==
    [][storage' # storage =>
          (Len(sessions) > 0 /\ storage' = Item(JSONstringify(sessions)))]_vars

C9_Witness ==
    /\ last = "load"
    /\ pending = {"persist"}
    /\ sessions = <<EarlierSession>>
    /\ storage = Item(JSONstringify(<<EarlierSession>>))

(* C10: every log the program writes is read back by the load effect as    *)
(* the same log: same length, order and fields.                            *)
C10_RoundTrip ==
    [][storage' # storage =>
          LoadEffect(storage') =
              [thrown |-> FALSE, set |-> TRUE, kind |-> "array", val |-> sessions]]_vars

C10_Witness ==
    /\ last = "load"
    /\ phase = "mounted"
    /\ Len(sessions) = MaxLog
    /\ sessions[Len(sessions)].notes = SpecialNotes
    /\ sessions[Len(sessions)].time = Number(MaxTime)

IsPrefix(a, b) == Len(a) <= Len(b) /\ SubSeq(b, 1, Len(a)) = a

(* C11: while the component stays mounted, every step after the load       *)
(* leaves the log unchanged or appends exactly one session at its end: the *)
(* log before the step is a prefix of the log after it.                    *)
C11_AppendOnly ==
    [][(phase = "mounted" /\ phase' = "mounted" /\ last' # "load")
          => (IsPrefix(sessions, sessions') /\ Len(sessions') <= Len(sessions) + 1)]_vars

C11_Witness ==
    /\ last = "save"
    /\ Len(sessions) = 2
    /\ sessions[1] = EarlierSession
    /\ sessions[2].notes = SpecialNotes

GreenTea == <<"G", "r", "e", "e", "n", " ", "t", "e", "a">>

(* C12: a save step taken with time = e > 0 and notes n appends exactly    *)
(* one session, at the end, with time e, timeMinutes e/60000 and notes n,  *)
(* and leaves time = 0, isRunning false and the notes empty; for e = 65430 *)
(* and notes "Green tea" the session holds 65430, 2181/2000 and the notes. *)
C12_SaveAppendsSession ==
    /\ [][(last' = "save" /\ time > 0) =>
            /\ Len(sessions') = Len(sessions) + 1
            /\ SubSeq(sessions', 1, Len(sessions)) = sessions
            /\ LET s == sessions'[Len(sessions')]
               IN /\ s.time = Number(time)
                  /\ s.timeMinutes.num * MsPerMinute = s.timeMinutes.den * time
                  /\ s.notes = notes
            /\ time' = 0 /\ ~isRunning' /\ notes' = <<>>]_vars
    /\ [](LET s == NewSession(65430, GreenTea, now)
          IN /\ s.time = Number(65430)
             /\ s.timeMinutes = [num |-> 2181, den |-> 2000]
             /\ s.notes = GreenTea)

C12_Witness ==
    /\ last = "save"
    /\ Len(sessions) > 0
    /\ sessions[Len(sessions)].notes = SpecialNotes
    /\ sessions[Len(sessions)].time = Number(MaxTime)
    /\ time = 0 /\ ~isRunning /\ notes = <<>>
    /\ "persist" \in pending

(* C13: in every reachable state the sessions of the log have pairwise     *)
(* distinct ids.                                                           *)
C13_DistinctIds ==
    \A i, j \in 1..Len(sessions) : i # j => sessions[i].id # sessions[j].id

Min(a, b) == IF a < b THEN a ELSE b

C15_RecentSessions ==
    /\ [](\A n \in {RecentCount} \cup (1..(Len(sessions) + 1)) :
             LET k == Len(sessions)
                 r == RecentSessions(sessions, n)
             IN /\ Len(r.shown) = Min(n, k)
                /\ \A i \in 1..Min(n, k) : r.shown[i] = sessions[k - i + 1]
                /\ r.log = sessions)
    /\ [][last' = "view" => sessions' = sessions]_vars

C15_Witness ==
    /\ last = "view"
    /\ activeView = "timer"
    /\ Len(sessions) = RecentCount + 1
    /\ RecentSessions(sessions, RecentCount).shown
           = <<sessions[4], sessions[3], sessions[2]>>
    /\ sessions[2] # sessions[4]

(* C16: the three statistics of the empty log are the number zero; those   *)
(* of a log of one session are each the session's timeMinutes written with *)
(* two decimals, at most half a hundredth away from it; the render that    *)
(* computes them leaves the log as it was.                                 *)
IsRounded2(str, x) ==
    LET k == Len(str)
        n == StringToNumber(SubSeq(str, 1, k - 3) \o SubSeq(str, k - 1, k))
    IN /\ k >= 4
       /\ str[k - 2] = "."
       /\ \A i \in (1..k) \ {k - 2} : IsDigit(str[i])
       /\ 2 * n * x.den <= 200 * x.num + x.den
       /\ 200 * x.num - x.den <= 2 * n * x.den

C16_StatsOfSmallLogs ==
    /\ [](LET stats == getStats(sessions)
          IN /\ Len(sessions) = 0 =>
                    /\ stats.average = Number(0)
                    /\ stats.shortest = Number(0)
                    /\ stats.longest = Number(0)
             /\ Len(sessions) = 1 =>
                    /\ IsRounded2(stats.average, sessions[1].timeMinutes)
                    /\ stats.shortest = stats.average
                    /\ stats.longest = stats.average)
    /\ [][(last' = "view" /\ activeView' = "trends") => sessions' = sessions]_vars

C16_Witness ==
    /\ last = "view"
    /\ activeView = "trends"
    /\ Len(sessions) = 1
    /\ sessions[1].time = Number(65430)
    /\ getStats(sessions).average = <<"1", ".", "0", "9">>

(* C17: for every elapsed value below 6,000,000 ms the display is           *)
(* MM:SS.CC, two digits each, with MM = ms div 60000, SS = (ms div 1000)   *)
(* mod 60 and CC = (ms mod 1000) div 10; 65430 reads 01:05.43.             *)
FormatInputs ==
    {0, 9, 10, 999, 1000, 59999, 60000, 65430, 3599999, 5999999}

IsMMSSCC(str, ms) ==
    /\ Len(str) = 8
    /\ \A i \in {1, 2, 4, 5, 7, 8} : IsDigit(str[i])
    /\ str[3] = ":"
    /\ str[6] = "."
    /\ StringToNumber(SubSeq(str, 1, 2)) = ms \div MsPerMinute
    /\ StringToNumber(SubSeq(str, 4, 5)) = (ms \div 1000) % 60
    /\ StringToNumber(SubSeq(str, 7, 8)) = (ms % 1000) \div 10

C17_FormatTime ==
    /\ (phase = "mounted" /\ time < 6000000) => IsMMSSCC(formatTime(time), time)
    /\ \A ms \in FormatInputs : ms < 6000000 => IsMMSSCC(formatTime(ms), ms)
    /\ formatTime(65430) = <<"0", "1", ":", "0", "5", ".", "4", "3">>

C17_Witness ==
    /\ last = "view"
    /\ activeView = "timer"
    /\ time = 65430
    /\ formatTime(time) = <<"0", "1", ":", "0", "5", ".", "4", "3">>

(* C18: the exported text has one row per session after the header row,    *)
(* in log order, and every data row reads as exactly three double-quoted   *)
(* fields: the date, the minutes with two decimals, the notes.             *)
(* A row is read as a CSV reader does: a field runs from its opening quote *)
(* to the next quote that is not doubled, and a comma or the end follows.  *)
RECURSIVE SplitAt(_, _, _, _)
SplitAt(text, sep, cur, done) ==
    IF Len(text) = 0 THEN Append(done, cur)
    ELSE IF text[1] = sep THEN SplitAt(Tail(text), sep, <<>>, Append(done, cur))
    ELSE SplitAt(Tail(text), sep, Append(cur, text[1]), done)

RowsOf(text) == SplitAt(text, NewLine, <<>>, <<>>)

RECURSIVE ReadQuotedFields(_, _, _, _)
ReadQuotedFields(row, i, cur, fields) ==
    IF i > Len(row) THEN [ok |-> FALSE, fields |-> fields]
    ELSE IF row[i] # Quote THEN ReadQuotedFields(row, i + 1, Append(cur, row[i]), fields)
    ELSE IF i = Len(row) THEN [ok |-> TRUE, fields |-> Append(fields, cur)]
    ELSE IF row[i + 1] = Quote
         THEN ReadQuotedFields(row, i + 2, Append(cur, Quote), fields)
    ELSE IF row[i + 1] = Comma /\ i + 2 <= Len(row) /\ row[i + 2] = Quote
         THEN ReadQuotedFields(row, i + 3, <<>>, Append(fields, cur))
    ELSE [ok |-> FALSE, fields |-> fields]

QuotedFields(row) ==
    IF Len(row) = 0 \/ row[1] # Quote THEN [ok |-> FALSE, fields |-> <<>>]
    ELSE ReadQuotedFields(row, 2, <<>>, <<>>)

C18_ExportedRows ==
    last = "export" =>
        LET rows == RowsOf(csvContent(sessions))
        IN /\ Len(rows) = Len(sessions) + 1
           /\ \A i \in 1..Len(sessions) :
                  QuotedFields(rows[i + 1]) =
                      [ok |-> TRUE,
                       fields |-> <<ToLocaleString(DateParse(sessions[i].date)),
                                    ToFixed2(sessions[i].timeMinutes),
                                    sessions[i].notes>>]

(* C19: from a well-formed stored log on, every write to the teaSessions   *)
(* item stores a log that the log stored before is a prefix of.            *)
StoredLog(item) == JSONparse(item.text)

WellFormedLog(item) ==
    Truthy(item) /\ StoredLog(item).ok /\ StoredLog(item).kind = "array"

C19_StoredLogOnlyGrows ==
    [][(storage' # storage /\ WellFormedLog(storage)) =>
          (WellFormedLog(storage') /\ IsPrefix(StoredLog(storage).val, StoredLog(storage').val))]_vars

C19_Witness ==
    /\ last = "effects"
    /\ WellFormedLog(storage)
    /\ Len(StoredLog(storage).val) = 2
    /\ StoredLog(storage).val[1] = EarlierSession
    /\ StoredLog(storage).val[2].notes = SpecialNotes

============================================================================
